---- MODULE Spec2Model ----
(***************************************************************************)
(* High-level emulation of the GBA BIOS software interrupts                *)
(* (src/src/gba/gba-bios.c): the SWI dispatcher GBASwi16/GBASwi32, _Div,    *)
(* and the four decoders _unLz77, _unHuffman, _unRl and _unFilter, as a    *)
(* state machine over the guest register file and the guest memory.        *)
(*                                                                         *)
(* The guest address space is scaled down to AddrSpace bytes (addresses    *)
(* wrap modulo AddrSpace as uint32_t addresses wrap modulo 2^32), and the  *)
(* registers used by Div to DivBits-bit two's complement integers.         *)
(* 32-bit words that need all 32 bits (the Huffman bitstream and           *)
(* accumulator) are kept as four little-endian bytes.                      *)
(* GBALog changes no guest-visible state and is left out; so are the       *)
(* region tests of lines 174-182, 188-196, 203-211 and 219-227, whose      *)
(* every branch only logs and then runs the decoder.                       *)
(***************************************************************************)
EXTENDS Integers, Sequences, FiniteSets, TLC

VARIABLES
    gprs,       \* cpu->gprs[0..15]
    mem,        \* guest memory behind cpu->memory, one byte per address
    fullBios,   \* gba->memory.fullBios
    thumb,      \* TRUE: the call enters by GBASwi16, FALSE: by GBASwi32
    imm,        \* the immediate handed to the entry point
    pc,         \* position of the running call
    loc,        \* the local variables of the running handler
    stores,     \* the bus stores issued so far, <<address, size, value>>
    swiRaised,  \* number of ARMRaiseSWI calls
    handler,    \* the HLE handler the dispatcher selected ("none" before)
    halted,     \* GBAHalt has been called
    gprs0,      \* the registers at the call
    mem0,       \* the memory at the call
    scen,       \* how the input of this call was built (kind, orig)
    srcTop      \* one past the highest source address consumed so far

vars == <<gprs, mem, fullBios, thumb, imm, pc, loc, stores, swiRaised,
          handler, halted, gprs0, mem0, scen, srcTop>>

-----------------------------------------------------------------------------
(* Bounds of the model *)

\* the guest address space holds 4 * AddrWords bytes
AddrWords == 10
\* the destination buffers start at byte 4 * DstWords
DstWords == 6
\* width of the scaled-down signed registers of the Div scenarios
DivBits == 4

\* the source streams start at byte 4 * SrcWords
SrcWords == 0

AddrSpace == 4 * AddrWords
SrcBase == 4 * SrcWords
DstBase == 4 * DstWords
Addr == 0 .. (AddrSpace - 1)
Byte == 0 .. 255

-----------------------------------------------------------------------------
(* Arithmetic helpers: C's fixed-width operators on naturals *)

RECURSIVE Pow2(_)
Pow2(n) == IF n = 0 THEN 1 ELSE 2 * Pow2(n - 1)

\* bit k of x
Bit(x, k) == (x \div Pow2(k)) % 2

\* a | b on naturals
RECURSIVE BitOr(_, _)
BitOr(a, b) ==
    IF a = 0 THEN b
    ELSE IF b = 0 THEN a
    ELSE (IF a % 2 = 1 \/ b % 2 = 1 THEN 1 ELSE 0) + 2 * BitOr(a \div 2, b \div 2)

\* uint32_t address arithmetic, scaled to the model's address space
Wrap(a) == ((a % AddrSpace) + AddrSpace) % AddrSpace

\* a & 0xFFFFFFFC and a & ~1 on an address
Align4(a) == a - (a % 4)
Align2(a) == a - (a % 2)

Abs(x) == IF x < 0 THEN -x ELSE x

Max(a, b) == IF a < b THEN b ELSE a

\* sum of the elements of a sequence of numbers
RECURSIVE SumSeq(_)
SumSeq(s) == IF s = <<>> THEN 0 ELSE Head(s) + SumSeq(Tail(s))

\* the first n elements of s (all of s when it is shorter)
Take(s, n) == SubSeq(s, 1, IF n < Len(s) THEN n ELSE Len(s))

-----------------------------------------------------------------------------
(* The memory bus behind cpu->memory: little-endian, total on every address *)

loadU8(m, a) == m[Wrap(a)]

loadU16(m, a) == m[Wrap(a)] + 256 * m[Wrap(a + 1)]

\* a 32-bit word as its four bytes, least significant first
load32(m, a) == <<m[Wrap(a)], m[Wrap(a + 1)], m[Wrap(a + 2)], m[Wrap(a + 3)]>>

store8(m, a, v) == [m EXCEPT ![Wrap(a)] = v % 256]

store16(m, a, v) ==
    [m EXCEPT ![Wrap(a)] = v % 256, ![Wrap(a + 1)] = (v \div 256) % 256]

\* w is a word given as four bytes
store32(m, a, w) ==
    [m EXCEPT ![Wrap(a)] = w[1], ![Wrap(a + 1)] = w[2],
              ![Wrap(a + 2)] = w[3], ![Wrap(a + 3)] = w[4]]

\* header >> 8 and (header & 0xFFFFFF00) >> 8: the declared length
HeaderLength(w) == w[2] + 256 * w[3] + 65536 * w[4]

\* word & 0x80000000
TopBit(w) == w[4] \div 128

\* word << 1 on 32 bits
ShiftLeft1(w) ==
    <<(2 * w[1]) % 256,
      ((2 * w[2]) % 256) + (w[1] \div 128),
      ((2 * w[3]) % 256) + (w[2] \div 128),
      ((2 * w[4]) % 256) + (w[3] \div 128)>>

\* the byte number i (0..3) of the 32-bit value v << sh, for v < 256
ShiftedByte(v, sh, i) ==
    IF sh >= 8 * i
    THEN (IF sh - 8 * i < 8 THEN (v * Pow2(sh - 8 * i)) % 256 ELSE 0)
    ELSE (IF 8 * i - sh < 8 THEN v \div Pow2(8 * i - sh) ELSE 0)

\* word | (v << sh) on 32 bits
OrShifted(w, v, sh) ==
    <<BitOr(w[1], ShiftedByte(v, sh, 0)), BitOr(w[2], ShiftedByte(v, sh, 1)),
      BitOr(w[3], ShiftedByte(v, sh, 2)), BitOr(w[4], ShiftedByte(v, sh, 3))>>

ZeroWord == <<0, 0, 0, 0>>

\* the record of one bus store
St(a, size, v) == <<Wrap(a), size, v>>

-----------------------------------------------------------------------------
(* Values an uninitialised int can hold when it is read *)
Uninit == -1
Garbage == {0, 65535}
ReadOf(h) == IF h = Uninit THEN Garbage ELSE {h}

-----------------------------------------------------------------------------
(* _Div, lines 108-123 *)

IntMin == 0 - Pow2(DivBits - 1)
IntMax == Pow2(DivBits - 1) - 1
Int32 == IntMin .. IntMax

\* div(): the quotient truncated toward zero, and its remainder
TruncQuot(n, d) ==
    (IF (n < 0) # (d < 0) THEN -1 ELSE 1) * (Abs(n) \div Abs(d))
TruncRem(n, d) == n - d * TruncQuot(n, d)

\* abs() on int: abs(INT_MIN) is not representable and comes back as INT_MIN
AbsInt(q) == IF q = IntMin THEN IntMin ELSE Abs(q)

\* The outcomes of _Div(num, denom). div(INT_MIN, -1) overflows, which is
\* undefined: the division instruction traps (x86 idiv), or the quotient
\* wraps to INT_MIN with remainder 0.
Div(num, denom) ==
    IF denom # 0
    THEN IF num = IntMin /\ denom = -1
         THEN {[trap |-> TRUE, r0 |-> 0, r1 |-> 0, r3 |-> 0],
               [trap |-> FALSE, r0 |-> IntMin, r1 |-> 0, r3 |-> AbsInt(IntMin)]}
         ELSE {[trap |-> FALSE,
                r0 |-> TruncQuot(num, denom),
                r1 |-> TruncRem(num, denom),
                r3 |-> AbsInt(TruncQuot(num, denom))]}
    ELSE {[trap |-> FALSE,
           r0 |-> IF num < 0 THEN -1 ELSE 1,
           r1 |-> num,
           r3 |-> 1]}

-----------------------------------------------------------------------------
(* Width handling shared by _unLz77 and _unRl (lines 279-288, 295-304,    *)
(* 418-427, 437-446): one produced byte goes out by store8, or is merged  *)
(* into a halfword that is stored when the destination address is odd.    *)

\* dest ^ 1
XorOne(a) == IF a % 2 = 1 THEN a - 1 ELSE a + 1

\* the values `halfword` can have where the code reads it
HalfwordRead(l) ==
    IF l.width = 2 /\ l.dest % 2 = 1 THEN ReadOf(l.halfword) ELSE {0}

\* the width test of lines 279, 295, 418 and 437 left out: every byte is
\* stored by store8
EmitBytewise(m, l, byte, hw) ==
    [mem |-> store8(m, l.dest, byte),
     st |-> <<St(l.dest, 1, byte)>>,
     halfword |-> l.halfword]

\* the memory, the stores issued and the new `halfword` once `byte` is
\* produced at l.dest; hw is the value read from `halfword`
Emit(m, l, byte, hw) ==
    IF l.width = 2
    THEN IF l.dest % 2 = 1
         THEN LET h == BitOr(hw, byte * 256)
              IN  [mem |-> store16(m, XorOne(l.dest), h),
                   st |-> <<St(XorOne(l.dest), 2, h % 65536)>>,
                   halfword |-> h]
         ELSE [mem |-> m, st |-> <<>>, halfword |-> byte]
    ELSE [mem |-> store8(m, l.dest, byte),
          st |-> <<St(l.dest, 1, byte)>>,
          halfword |-> l.halfword]

-----------------------------------------------------------------------------
(* _unLz77, lines 253-319 *)

\* lines 254-266: the locals before the loop
unLz77(g, m, width) ==
    [fn |-> "unLz77",
     width |-> width,
     source |-> Wrap(g[0] + 4),
     dest |-> Wrap(g[1]),
     remaining |-> HeaderLength(load32(m, g[0])),
     blockheader |-> 0,
     blocksRemaining |-> 0,
     block |-> 0,
     disp |-> 0,
     bytes |-> 0,
     halfword |-> Uninit]

\* lines 310-314: a new flag byte
Lz77Header ==
    /\ pc = "unLz77"
    /\ loc.remaining > 0
    /\ loc.blocksRemaining = 0
    /\ loc' = [loc EXCEPT !.blockheader = loadU8(mem, loc.source),
                          !.source = Wrap(loc.source + 1),
                          !.blocksRemaining = 8]
    /\ srcTop' = Max(srcTop, loc.source + 1)
    /\ UNCHANGED <<gprs, mem, fullBios, thumb, imm, pc, stores, swiRaised,
                   handler, halted, gprs0, mem0, scen>>

\* lines 292-309: a literal byte
Lz77Literal ==
    /\ pc = "unLz77"
    /\ loc.remaining > 0
    /\ loc.blocksRemaining # 0
    /\ Bit(loc.blockheader, 7) = 0
    /\ \E hw \in HalfwordRead(loc) :
         LET e == Emit(mem, loc, loadU8(mem, loc.source), hw)
         IN  /\ mem' = e.mem
             /\ stores' = stores \o e.st
             /\ loc' = [loc EXCEPT !.source = Wrap(loc.source + 1),
                                   !.halfword = e.halfword,
                                   !.dest = Wrap(loc.dest + 1),
                                   !.remaining = loc.remaining - 1,
                                   !.blockheader = loc.blockheader * 2,
                                   !.blocksRemaining = loc.blocksRemaining - 1]
    /\ srcTop' = Max(srcTop, loc.source + 1)
    /\ UNCHANGED <<gprs, fullBios, thumb, imm, pc, swiRaised, handler,
                   halted, gprs0, mem0, scen>>

\* lines 270-274: the two bytes of a back-reference
Lz77Compressed ==
    /\ pc = "unLz77"
    /\ loc.remaining > 0
    /\ loc.blocksRemaining # 0
    /\ Bit(loc.blockheader, 7) = 1
    /\ LET b0 == loadU8(mem, loc.source)
           b1 == loadU8(mem, loc.source + 1)
           block == b0 + 256 * b1
       IN  loc' = [loc EXCEPT
                     !.block = block,
                     !.source = Wrap(loc.source + 2),
                     !.disp = Wrap(loc.dest
                                   - (((block % 16) * 256) + (block \div 256))
                                   - 1),
                     !.bytes = ((block \div 16) % 16) + 3]
    /\ pc' = "unLz77_copy"
    /\ srcTop' = Max(srcTop, loc.source + 2)
    /\ UNCHANGED <<gprs, mem, fullBios, thumb, imm, stores, swiRaised,
                   handler, halted, gprs0, mem0, scen>>

\* lines 275-290: one byte of the copy
Lz77Copy ==
    /\ pc = "unLz77_copy"
    /\ loc.bytes # 0
    /\ loc.remaining # 0
    /\ \E hw \in HalfwordRead(loc) :
         LET e == Emit(mem, loc, loadU8(mem, loc.disp), hw)
         IN  /\ mem' = e.mem
             /\ stores' = stores \o e.st
             /\ loc' = [loc EXCEPT !.bytes = loc.bytes - 1,
                                   !.remaining = loc.remaining - 1,
                                   !.disp = Wrap(loc.disp + 1),
                                   !.halfword = e.halfword,
                                   !.dest = Wrap(loc.dest + 1)]
    /\ UNCHANGED <<gprs, fullBios, thumb, imm, pc, swiRaised, handler,
                   halted, gprs0, mem0, scen, srcTop>>

\* line 275 failing, then lines 308-309
Lz77CopyEnd ==
    /\ pc = "unLz77_copy"
    /\ ~(loc.bytes # 0 /\ loc.remaining # 0)
    /\ loc' = [loc EXCEPT !.bytes = loc.bytes - 1,
                          !.blockheader = loc.blockheader * 2,
                          !.blocksRemaining = loc.blocksRemaining - 1]
    /\ pc' = "unLz77"
    /\ UNCHANGED <<gprs, mem, fullBios, thumb, imm, stores, swiRaised,
                   handler, halted, gprs0, mem0, scen, srcTop>>

\* line 267 failing, then lines 316-318
Lz77Return ==
    /\ pc = "unLz77"
    /\ loc.remaining <= 0
    /\ gprs' = [gprs EXCEPT ![0] = loc.source, ![1] = loc.dest, ![3] = 0]
    /\ pc' = "done"
    /\ UNCHANGED <<mem, fullBios, thumb, imm, loc, stores, swiRaised,
                   handler, halted, gprs0, mem0, scen, srcTop>>

-----------------------------------------------------------------------------
(* _unHuffman, lines 326-394 *)

\* HuffmanNode bit fields, lines 321-324
HuffmanNodeGetOffset(node) == node % 64
HuffmanNodeIsRTerm(node) == Bit(node, 6) = 1
HuffmanNodeIsLTerm(node) == Bit(node, 7) = 1

\* lines 327-332: the locals up to the test of the symbol width
unHuffman(g, m) ==
    LET source == Align4(Wrap(g[0]))
        header == load32(m, source)
    IN  [fn |-> "unHuffman",
         source |-> source,
         dest |-> Wrap(g[1]),
         remaining |-> HeaderLength(header),
         bits |-> header[1] % 16,
         padding |-> 0,
         treeBase |-> 0,
         nPointer |-> 0,
         node |-> 0,
         bitsRemaining |-> 0,
         bitstream |-> ZeroWord,
         bitsSeen |-> 0,
         block |-> ZeroWord]

\* What `32 % bits` (line 333) can do: with bits = 0 the division is
\* undefined; it traps (x86 idiv), or it yields some value, zero or not.
Mod32(bits) ==
    IF bits = 0 THEN {"trap", "zero", "nonzero"}
    ELSE IF 32 % bits = 0 THEN {"zero"} ELSE {"nonzero"}

\* lines 333-336: the width does not divide 32
HuffUnaligned ==
    /\ pc = "unHuffman"
    /\ "nonzero" \in Mod32(loc.bits)
    /\ pc' = "done"
    /\ UNCHANGED <<gprs, mem, fullBios, thumb, imm, loc, stores, swiRaised,
                   handler, halted, gprs0, mem0, scen, srcTop>>

\* line 333 with bits = 0, where the division traps
HuffDivideTrap ==
    /\ pc = "unHuffman"
    /\ "trap" \in Mod32(loc.bits)
    /\ pc' = "trap"
    /\ UNCHANGED <<gprs, mem, fullBios, thumb, imm, loc, stores, swiRaised,
                   handler, halted, gprs0, mem0, scen, srcTop>>

\* lines 337-349: padding, tree and the root node
HuffSetup ==
    /\ pc = "unHuffman"
    /\ "zero" \in Mod32(loc.bits)
    /\ LET treesize == (loadU8(mem, loc.source + 4) * 2) + 1
           treeBase == Wrap(loc.source + 5)
       IN  loc' = [loc EXCEPT
                     !.padding = (4 - (loc.remaining % 4)) % 4,
                     !.remaining = loc.remaining - (loc.remaining % 4),
                     !.treeBase = treeBase,
                     !.source = Wrap(loc.source + 5 + treesize),
                     !.nPointer = treeBase,
                     !.bitsSeen = 0,
                     !.block = ZeroWord,
                     !.node = loadU8(mem, treeBase)]
    /\ pc' = "unHuffman_loop"
    /\ srcTop' = Max(srcTop, loc.source + 5 + (loadU8(mem, loc.source + 4) * 2) + 1)
    /\ UNCHANGED <<gprs, mem, fullBios, thumb, imm, stores, swiRaised,
                   handler, halted, gprs0, mem0, scen>>

\* lines 350-353: the next word of the bitstream
HuffWord ==
    /\ pc = "unHuffman_loop"
    /\ loc.remaining > 0
    /\ loc' = [loc EXCEPT !.bitstream = load32(mem, loc.source),
                          !.source = Wrap(loc.source + 4),
                          !.bitsRemaining = 32]
    /\ pc' = "unHuffman_bits"
    /\ srcTop' = Max(srcTop, loc.source + 4)
    /\ UNCHANGED <<gprs, mem, fullBios, thumb, imm, stores, swiRaised,
                   handler, halted, gprs0, mem0, scen>>

\* line 354
HuffNext(l) ==
    Wrap(Align2(l.nPointer) + (HuffmanNodeGetOffset(l.node) * 2) + 2)

\* the child the current bit selects, and whether it is a leaf
HuffChild(l) ==
    IF TopBit(l.bitstream) = 1
    THEN [at |-> Wrap(HuffNext(l) + 1), term |-> HuffmanNodeIsRTerm(l.node)]
    ELSE [at |-> HuffNext(l), term |-> HuffmanNodeIsLTerm(l.node)]

\* lines 359-363 and 368-372: go down one node, then the loop's increment
HuffDescend ==
    /\ pc = "unHuffman_bits"
    /\ loc.bitsRemaining > 0
    /\ loc.remaining > 0
    /\ ~HuffChild(loc).term
    /\ loc' = [loc EXCEPT !.nPointer = HuffChild(loc).at,
                          !.node = loadU8(mem, HuffChild(loc).at),
                          !.bitsRemaining = loc.bitsRemaining - 1,
                          !.bitstream = ShiftLeft1(loc.bitstream)]
    /\ srcTop' = Max(srcTop, HuffChild(loc).at + 1)
    /\ UNCHANGED <<gprs, mem, fullBios, thumb, imm, pc, stores, swiRaised,
                   handler, halted, gprs0, mem0, scen>>

\* lines 358, 367 and 375-385: a symbol, then the loop's increment.
\* readBits & ((1 << bits) - 1) is the leaf byte modulo 2^bits, bits <= 8.
HuffLeaf ==
    /\ pc = "unHuffman_bits"
    /\ loc.bitsRemaining > 0
    /\ loc.remaining > 0
    /\ HuffChild(loc).term
    /\ LET readBits == loadU8(mem, HuffChild(loc).at)
           block == OrShifted(loc.block, readBits % Pow2(loc.bits), loc.bitsSeen)
           bitsSeen == loc.bitsSeen + loc.bits
           full == bitsSeen = 32
       IN  /\ loc' = [loc EXCEPT
                        !.block = IF full THEN ZeroWord ELSE block,
                        !.bitsSeen = IF full THEN 0 ELSE bitsSeen,
                        !.nPointer = loc.treeBase,
                        !.node = loadU8(mem, loc.treeBase),
                        !.dest = IF full THEN Wrap(loc.dest + 4) ELSE loc.dest,
                        !.remaining = IF full THEN loc.remaining - 4
                                      ELSE loc.remaining,
                        !.bitsRemaining = loc.bitsRemaining - 1,
                        !.bitstream = ShiftLeft1(loc.bitstream)]
           /\ mem' = IF full THEN store32(mem, loc.dest, block) ELSE mem
           /\ stores' = IF full THEN Append(stores, St(loc.dest, 4, block))
                        ELSE stores
    /\ srcTop' = Max(srcTop, HuffChild(loc).at + 1)
    /\ UNCHANGED <<gprs, fullBios, thumb, imm, pc, swiRaised, handler,
                   halted, gprs0, mem0, scen>>

\* line 353 failing: back to line 350
HuffBitsEnd ==
    /\ pc = "unHuffman_bits"
    /\ ~(loc.bitsRemaining > 0 /\ loc.remaining > 0)
    /\ pc' = "unHuffman_loop"
    /\ UNCHANGED <<gprs, mem, fullBios, thumb, imm, loc, stores, swiRaised,
                   handler, halted, gprs0, mem0, scen, srcTop>>

\* line 350 failing, then lines 389-393
HuffReturn ==
    /\ pc = "unHuffman_loop"
    /\ loc.remaining <= 0
    /\ mem' = IF loc.padding # 0 THEN store32(mem, loc.dest, loc.block) ELSE mem
    /\ stores' = IF loc.padding # 0
                 THEN Append(stores, St(loc.dest, 4, loc.block))
                 ELSE stores
    /\ gprs' = [gprs EXCEPT ![0] = loc.source, ![1] = loc.dest]
    /\ pc' = "done"
    /\ UNCHANGED <<fullBios, thumb, imm, loc, swiRaised, handler, halted,
                   gprs0, mem0, scen, srcTop>>

-----------------------------------------------------------------------------
(* _unRl, lines 396-467 *)

\* lines 397-406: the locals before the loop
unRl(g, m, width) ==
    LET source == Align4(Wrap(g[0]))
        remaining == HeaderLength(load32(m, source))
    IN  [fn |-> "unRl",
         width |-> width,
         source |-> Wrap(source + 4),
         dest |-> Wrap(g[1]),
         remaining |-> remaining,
         padding |-> (4 - (remaining % 4)) % 4,
         blockheader |-> 0,
         block |-> 0,
         halfword |-> 0]

\* lines 408-415: the flag and the byte of a run
RlCompressed ==
    /\ pc = "unRl"
    /\ loc.remaining > 0
    /\ Bit(loadU8(mem, loc.source), 7) = 1
    /\ loc' = [loc EXCEPT
                 !.blockheader = (loadU8(mem, loc.source) % 128) + 3,
                 !.block = loadU8(mem, loc.source + 1),
                 !.source = Wrap(loc.source + 2)]
    /\ pc' = "unRl_run"
    /\ srcTop' = Max(srcTop, loc.source + 2)
    /\ UNCHANGED <<gprs, mem, fullBios, thumb, imm, stores, swiRaised,
                   handler, halted, gprs0, mem0, scen>>

\* lines 408-410 and 432: the flag of a literal block
RlUncompressed ==
    /\ pc = "unRl"
    /\ loc.remaining > 0
    /\ Bit(loadU8(mem, loc.source), 7) = 0
    /\ loc' = [loc EXCEPT !.blockheader = loadU8(mem, loc.source) + 1,
                          !.source = Wrap(loc.source + 1)]
    /\ pc' = "unRl_lit"
    /\ srcTop' = Max(srcTop, loc.source + 1)
    /\ UNCHANGED <<gprs, mem, fullBios, thumb, imm, stores, swiRaised,
                   handler, halted, gprs0, mem0, scen>>

\* lines 416-429: one byte of the run
RlRun ==
    /\ pc = "unRl_run"
    /\ loc.blockheader # 0
    /\ loc.remaining # 0
    /\ \E hw \in HalfwordRead(loc) :
         LET e == Emit(mem, loc, loc.block, hw)
         IN  /\ mem' = e.mem
             /\ stores' = stores \o e.st
             /\ loc' = [loc EXCEPT !.blockheader = loc.blockheader - 1,
                                   !.remaining = loc.remaining - 1,
                                   !.halfword = e.halfword,
                                   !.dest = Wrap(loc.dest + 1)]
    /\ UNCHANGED <<gprs, fullBios, thumb, imm, pc, swiRaised, handler,
                   halted, gprs0, mem0, scen, srcTop>>

\* lines 433-448: one literal byte
RlLiteral ==
    /\ pc = "unRl_lit"
    /\ loc.blockheader # 0
    /\ loc.remaining # 0
    /\ \E hw \in HalfwordRead(loc) :
         LET e == Emit(mem, loc, loadU8(mem, loc.source), hw)
         IN  /\ mem' = e.mem
             /\ stores' = stores \o e.st
             /\ loc' = [loc EXCEPT !.blockheader = loc.blockheader - 1,
                                   !.remaining = loc.remaining - 1,
                                   !.source = Wrap(loc.source + 1),
                                   !.halfword = e.halfword,
                                   !.dest = Wrap(loc.dest + 1)]
    /\ srcTop' = Max(srcTop, loc.source + 1)
    /\ UNCHANGED <<gprs, fullBios, thumb, imm, pc, swiRaised, handler,
                   halted, gprs0, mem0, scen>>

\* line 416 or 433 failing: back to line 407
RlBlockEnd ==
    /\ pc \in {"unRl_run", "unRl_lit"}
    /\ ~(loc.blockheader # 0 /\ loc.remaining # 0)
    /\ loc' = [loc EXCEPT !.blockheader = loc.blockheader - 1]
    /\ pc' = "unRl"
    /\ UNCHANGED <<gprs, mem, fullBios, thumb, imm, stores, swiRaised,
                   handler, halted, gprs0, mem0, scen, srcTop>>

\* line 407 failing, then lines 451-455
RlLoopEnd ==
    /\ pc = "unRl"
    /\ loc.remaining <= 0
    /\ loc' = IF loc.width = 2 /\ loc.dest % 2 = 1
              THEN [loc EXCEPT !.padding = loc.padding - 1,
                               !.dest = Wrap(loc.dest + 1)]
              ELSE loc
    /\ pc' = "unRl_pad"
    /\ UNCHANGED <<gprs, mem, fullBios, thumb, imm, stores, swiRaised,
                   handler, halted, gprs0, mem0, scen, srcTop>>

\* line 456 or 460: is there padding left to write
RlPadding(l) == IF l.width = 2 THEN l.padding > 0 ELSE l.padding # 0

\* lines 456-458 and 460-463: one store of zero padding
RlPad ==
    /\ pc = "unRl_pad"
    /\ RlPadding(loc)
    /\ mem' = IF loc.width = 2 THEN store16(mem, loc.dest, 0)
              ELSE store8(mem, loc.dest, 0)
    /\ stores' = Append(stores, St(loc.dest, loc.width, 0))
    /\ loc' = [loc EXCEPT !.padding = loc.padding - loc.width,
                          !.dest = Wrap(loc.dest + loc.width)]
    /\ UNCHANGED <<gprs, fullBios, thumb, imm, pc, swiRaised, handler,
                   halted, gprs0, mem0, scen, srcTop>>

\* lines 465-466
RlReturn ==
    /\ pc = "unRl_pad"
    /\ ~RlPadding(loc)
    /\ gprs' = [gprs EXCEPT ![0] = loc.source, ![1] = loc.dest]
    /\ pc' = "done"
    /\ UNCHANGED <<mem, fullBios, thumb, imm, loc, stores, swiRaised,
                   handler, halted, gprs0, mem0, scen, srcTop>>

-----------------------------------------------------------------------------
(* _unFilter, lines 469-509 *)

\* lines 470-478: the locals before the loop
unFilter(g, m, inwidth, outwidth) ==
    LET source == Align4(Wrap(g[0]))
    IN  [fn |-> "unFilter",
         inwidth |-> inwidth,
         outwidth |-> outwidth,
         source |-> Wrap(source + 4),
         dest |-> Wrap(g[1]),
         remaining |-> HeaderLength(load32(m, source)),
         halfword |-> 0,
         old |-> 0]

\* lines 481-486: the unit read, plus the previous one, as uint16_t
UnFilterNew(m, l) ==
    ((IF l.inwidth = 1 THEN loadU8(m, l.source) ELSE loadU16(m, l.source))
     + l.old) % 65536

\* lines 488-489: halfword >>= 8; halfword |= (new << 8), as uint16_t
UnFilterMerge(halfword, new) ==
    BitOr(halfword \div 256, (new * 256) % 65536)

\* the test of line 490 left out: every pass stores
UnFilterCommitsAlways(l) == TRUE

\* does this pass of the loop store (lines 490, 495, 499)
UnFilterCommits(l) == l.outwidth > l.inwidth => l.source % 2 = 1

\* the value stored by this pass (lines 491, 496, 500)
UnFilterValue(m, l) ==
    IF l.outwidth > l.inwidth
    THEN UnFilterMerge(l.halfword, UnFilterNew(m, l))
    ELSE IF l.outwidth = 1 THEN UnFilterNew(m, l) % 256
    ELSE UnFilterNew(m, l)

\* lines 479-506: one pass of the loop
UnFilterStep ==
    /\ pc = "unFilter"
    /\ loc.remaining > 0
    /\ LET new == UnFilterNew(mem, loc)
           value == UnFilterValue(mem, loc)
           commit == UnFilterCommits(loc)
       IN  /\ mem' = IF ~commit THEN mem
                     ELSE IF loc.outwidth = 1 THEN store8(mem, loc.dest, value)
                     ELSE store16(mem, loc.dest, value)
           /\ stores' = IF commit
                        THEN Append(stores, St(loc.dest, loc.outwidth, value))
                        ELSE stores
           /\ loc' = [loc EXCEPT
                        !.halfword = IF loc.outwidth > loc.inwidth
                                     THEN value ELSE loc.halfword,
                        !.dest = IF commit THEN Wrap(loc.dest + loc.outwidth)
                                 ELSE loc.dest,
                        !.remaining = IF commit
                                      THEN loc.remaining - loc.outwidth
                                      ELSE loc.remaining,
                        !.old = new,
                        !.source = Wrap(loc.source + loc.inwidth)]
    /\ srcTop' = Max(srcTop, loc.source + loc.inwidth)
    /\ UNCHANGED <<gprs, fullBios, thumb, imm, pc, swiRaised, handler,
                   halted, gprs0, mem0, scen>>

\* line 479 failing, then lines 507-508
UnFilterReturn ==
    /\ pc = "unFilter"
    /\ loc.remaining <= 0
    /\ gprs' = [gprs EXCEPT ![0] = loc.source, ![1] = loc.dest]
    /\ pc' = "done"
    /\ UNCHANGED <<mem, fullBios, thumb, imm, loc, stores, swiRaised,
                   handler, halted, gprs0, mem0, scen, srcTop>>

-----------------------------------------------------------------------------
(* The handlers that compute in floating point.  Their arithmetic (sqrt,   *)
(* atan2f, cosf, sinf, powf) is not modelled: a result is some value of    *)
(* FloatValues.  Which registers and addresses they write is modelled.     *)

FloatValues == {0, 256}

\* a value as a 32-bit word
WordOf(v) == <<v % 256, (v \div 256) % 256, 0, 0>>

\* GBAChecksum, lines 244-251: the sum of the words of `memory`, as
\* uint32_t scaled to the register width of the model
GBAChecksum(memory, size) ==
    SumSeq([i \in 1 .. (size \div 4) |-> memory[i]]) % Pow2(DivBits)

\* gba->memory.bios and SIZE_BIOS: a BIOS image of two words
BiosImage == <<3, 7>>
SizeBios == 4 * Len(BiosImage)

\* _BgAffineSet, lines 27-36: the locals before the loop
BgAffineSet(g) ==
    [fn |-> "BgAffineSet", i |-> g[2], offset |-> g[0], destination |-> g[1]]

\* _ObjAffineSet, lines 71-78: the locals before the loop
ObjAffineSet(g) ==
    [fn |-> "ObjAffineSet", i |-> g[2], offset |-> g[0],
     destination |-> g[1], diff |-> g[3]]

\* lines 37-67: one pass of the loop of _BgAffineSet
BgAffineStep ==
    /\ pc = "BgAffineSet"
    /\ loc.i # 0
    /\ \E a \in FloatValues, b \in FloatValues, c \in FloatValues,
          cd \in FloatValues, rx \in FloatValues, ry \in FloatValues :
         LET d == loc.destination
             m1 == store16(mem, d, a)
             m2 == store16(m1, d + 2, b)
             m3 == store16(m2, d + 4, c)
             m4 == store16(m3, d + 6, cd)
             m5 == store32(m4, d + 8, WordOf(rx))
             m6 == store32(m5, d + 12, WordOf(ry))
         IN  /\ mem' = m6
             /\ stores' = stores \o
                    <<St(d, 2, a), St(d + 2, 2, b), St(d + 4, 2, c),
                      St(d + 6, 2, cd), St(d + 8, 4, WordOf(rx)),
                      St(d + 12, 4, WordOf(ry))>>
    /\ loc' = [loc EXCEPT !.i = loc.i - 1,
                          !.offset = loc.offset + 20,
                          !.destination = loc.destination + 16]
    /\ UNCHANGED <<gprs, fullBios, thumb, imm, pc, swiRaised, handler,
                   halted, gprs0, mem0, scen, srcTop>>

\* lines 79-99: one pass of the loop of _ObjAffineSet
ObjAffineStep ==
    /\ pc = "ObjAffineSet"
    /\ loc.i # 0
    /\ \E a \in FloatValues, b \in FloatValues, c \in FloatValues,
          cd \in FloatValues :
         LET d == loc.destination
             m1 == store16(mem, d, a)
             m2 == store16(m1, d + loc.diff, b)
             m3 == store16(m2, d + (loc.diff * 2), c)
             m4 == store16(m3, d + (loc.diff * 3), cd)
         IN  /\ mem' = m4
             /\ stores' = stores \o
                    <<St(d, 2, a), St(d + loc.diff, 2, b),
                      St(d + (loc.diff * 2), 2, c),
                      St(d + (loc.diff * 3), 2, cd)>>
    /\ loc' = [loc EXCEPT !.i = loc.i - 1,
                          !.offset = loc.offset + 8,
                          !.destination = loc.destination + (loc.diff * 4)]
    /\ UNCHANGED <<gprs, fullBios, thumb, imm, pc, swiRaised, handler,
                   halted, gprs0, mem0, scen, srcTop>>

\* line 37 or 79 failing: the affine handler returns
AffineReturn ==
    /\ pc \in {"BgAffineSet", "ObjAffineSet"}
    /\ loc.i = 0
    /\ pc' = "done"
    /\ UNCHANGED <<gprs, mem, fullBios, thumb, imm, loc, stores, swiRaised,
                   handler, halted, gprs0, mem0, scen, srcTop>>

-----------------------------------------------------------------------------
(* GBASwi16 and GBASwi32, lines 125-242 *)

\* the state a call leaves when it changes nothing
Unchanged ==
    [pc |-> "done", gprs |-> gprs, loc |-> loc, swiRaised |-> swiRaised,
     handler |-> "none", halted |-> halted]

\* ARMRaiseSWI(cpu): the CPU is asked for a real SWI exception
ARMRaiseSWI(e) == [e EXCEPT !.swiRaised = e.swiRaised + 1]

\* GBAHalt(gba)
GBAHalt(e) == [e EXCEPT !.halted = TRUE, !.handler = "Halt"]

\* cases 0x6 and 0x7, lines 148-153, with _Div
SwiDiv(num, denom) ==
    {IF o.trap
     THEN [Unchanged EXCEPT !.pc = "trap", !.handler = "Div"]
     ELSE [Unchanged EXCEPT
             !.gprs = [gprs EXCEPT ![0] = o.r0, ![1] = o.r1, ![3] = o.r3],
             !.handler = "Div"]
     : o \in Div(num, denom)}

\* a decoder or affine handler is entered with locals l
Enter(g, l) ==
    [Unchanged EXCEPT !.pc = l.fn, !.gprs = g, !.loc = l, !.handler = l.fn]

\* lines 134-237: what the switch does up to the first loop of the handler
\* it selects
SwiSwitch(immediate) ==
         CASE immediate = 1 ->
                {[Unchanged EXCEPT !.handler = "RegisterRamReset"]}
           [] immediate = 2 -> {GBAHalt(Unchanged)}
           [] immediate \in {4, 5, 11, 12} -> {ARMRaiseSWI(Unchanged)}
           [] immediate = 6 -> SwiDiv(gprs[0], gprs[1])
           [] immediate = 7 -> SwiDiv(gprs[1], gprs[0])
           [] immediate \in {8, 10, 31} ->
                {[Unchanged EXCEPT
                    !.gprs = [gprs EXCEPT ![0] = v],
                    !.handler = CASE immediate = 8 -> "Sqrt"
                                  [] immediate = 10 -> "ArcTan2"
                                  [] OTHER -> "MidiKey2Freq"]
                 : v \in FloatValues}
           [] immediate = 13 ->
                LET g == [gprs EXCEPT ![0] = GBAChecksum(BiosImage, SizeBios)]
                IN  {Enter(g, BgAffineSet(g))}
           [] immediate = 14 -> {Enter(gprs, BgAffineSet(gprs))}
           [] immediate = 15 -> {Enter(gprs, ObjAffineSet(gprs))}
           [] immediate \in {17, 18} ->
                {Enter(gprs, unLz77(gprs, mem, IF immediate = 17 THEN 1 ELSE 2))}
           [] immediate = 19 -> {Enter(gprs, unHuffman(gprs, mem))}
           [] immediate \in {20, 21} ->
                {Enter(gprs, unRl(gprs, mem, IF immediate = 20 THEN 1 ELSE 2))}
           [] immediate \in {22, 23, 24} ->
                {Enter(gprs, unFilter(gprs, mem,
                                      IF immediate = 24 THEN 2 ELSE 1,
                                      IF immediate = 22 THEN 1 ELSE 2))}
           [] OTHER -> {[Unchanged EXCEPT !.handler = "stub"]}

\* lines 130-133 left out: the switch runs although the full BIOS is used
SwiEffectsNoReturn(immediate) ==
    IF fullBios THEN {ARMRaiseSWI(e) : e \in SwiSwitch(immediate)}
    ELSE SwiSwitch(immediate)

\* lines 130-134: the full BIOS takes the SWI, or the switch runs
SwiEffects(immediate) ==
    IF fullBios THEN {ARMRaiseSWI(Unchanged)} ELSE SwiSwitch(immediate)

GBASwi16(immediate) ==
    /\ pc = "call"
    /\ \E e \in SwiEffects(immediate) :
         /\ pc' = e.pc
         /\ gprs' = e.gprs
         /\ loc' = e.loc
         /\ swiRaised' = e.swiRaised
         /\ handler' = e.handler
         /\ halted' = e.halted
         /\ srcTop' = IF e.pc = "unHuffman" THEN e.loc.source + 4
                       ELSE IF e.pc \in {"unLz77", "unRl", "unFilter"}
                       THEN e.loc.source
                       ELSE srcTop
    /\ UNCHANGED <<mem, fullBios, thumb, imm, stores, gprs0, mem0, scen>>

\* line 241: immediate >> 16
GBASwi32(immediate) == GBASwi16(immediate \div 65536)

\* the interpreter executes a Thumb SWI
SwiThumb == thumb /\ GBASwi16(imm)

\* the interpreter executes an ARM SWI
SwiArm == ~thumb /\ GBASwi32(imm)

-----------------------------------------------------------------------------
(* The calls the model runs: the registers and the memory at the SWI *)

\* longest LZ77 stream, in chunks
MaxChunks == 3
\* largest displacement field of an LZ77 back-reference
MaxDisp == 1
\* longest Huffman output, in bytes
MaxHuffLen == 5
\* longest RLE stream, in blocks
MaxBlocks == 2
\* longest UnFilter input, in bytes
MaxUnits == 4

\* the header word of a compressed stream: signature, then the length
Header(sig, L) == <<sig, L % 256, (L \div 256) % 256, L \div 65536>>

\* memory holding `stream` at SrcBase and `fill` in the destination buffers
ImageWith(stream, fill) ==
    [a \in Addr |-> IF a >= SrcBase /\ a < SrcBase + Len(stream)
                    THEN stream[a - SrcBase + 1]
                    ELSE IF a >= DstBase THEN fill ELSE 0]

\* destination bytes start out 0xEE, so that a byte never written shows
Image(stream) == ImageWith(stream, 238)

BaseRegs ==
    [i \in 0 .. 15 |-> CASE i = 0 -> SrcBase
                         [] i = 1 -> DstBase
                         [] i = 2 -> 1
                         [] i = 3 -> 2
                         [] OTHER -> 100 + i]

Call(immediate, r0, r1, m, kind, orig) ==
    [imm |-> immediate, thumb |-> TRUE, fullBios |-> FALSE,
     gprs |-> [BaseRegs EXCEPT ![0] = r0, ![1] = r1],
     mem |-> m, kind |-> kind, orig |-> orig]

\* all sequences over S of length lo .. hi
SeqsOf(S, lo, hi) == UNION {[1 .. n -> S] : n \in lo .. hi}

(* LZ77 streams, built from chunks: a literal byte a, or a back-reference *)
(* with displacement field a and length field n.                          *)
LzChunks ==
    {[ref |-> FALSE, a |-> b, n |-> 0] : b \in {65, 66}}
    \cup {[ref |-> TRUE, a |-> d, n |-> 0] : d \in 0 .. MaxDisp}

LzChunkLen(c) == IF c.ref THEN c.n + 3 ELSE 1

LzLength(cs) == SumSeq([i \in 1 .. Len(cs) |-> LzChunkLen(cs[i])])

\* every back-reference points into the output produced before it
LzValid(cs) ==
    \A i \in 1 .. Len(cs) :
        cs[i].ref => cs[i].a < LzLength(SubSeq(cs, 1, i - 1))

\* the bytes a back-reference stands for: k bytes, each the one a + 1
\* places before the end of the output so far
RECURSIVE LzCopy(_, _, _)
LzCopy(out, a, k) ==
    IF k = 0 THEN out ELSE LzCopy(Append(out, out[Len(out) - a]), a, k - 1)

\* the byte sequence the chunks stand for
RECURSIVE LzExpand(_, _)
LzExpand(cs, out) ==
    IF cs = <<>> THEN out
    ELSE LET c == Head(cs)
         IN  LzExpand(Tail(cs),
                      IF c.ref THEN LzCopy(out, c.a, c.n + 3)
                      ELSE Append(out, c.a))

\* the flag byte: chunk i is bit 8 - i
LzFlag(cs) ==
    SumSeq([i \in 1 .. Len(cs) |-> IF cs[i].ref THEN Pow2(8 - i) ELSE 0])

RECURSIVE LzBody(_)
LzBody(cs) ==
    IF cs = <<>> THEN <<>>
    ELSE LET c == Head(cs)
         IN  (IF c.ref THEN <<(c.n * 16) + (c.a \div 256), c.a % 256>>
              ELSE <<c.a>>) \o LzBody(Tail(cs))

LzCalls ==
    {Call(IF width = 1 THEN 17 ELSE 18, SrcBase, DstBase + off,
          Image(Header(16, LzLength(cs) - cut) \o <<LzFlag(cs)>> \o LzBody(cs)),
          "lz77", Take(LzExpand(cs, <<>>), LzLength(cs) - cut))
     : cs \in {x \in SeqsOf(LzChunks, 1, MaxChunks) : LzValid(x)},
       cut \in 0 .. 1, width \in 1 .. 2, off \in 0 .. 1}

(* Huffman streams: symbols of w bits, a tree of n = 2 or 3 leaves, and   *)
(* the original bytes made of the symbols of the tree.                    *)

\* the symbols of the n leaves
HuffSyms(w, n) == IF w = 1 THEN <<0, 1>> ELSE SubSeq(<<1, 2, 3>>, 1, n)

\* the byte stored in a leaf: the symbol, with set bits above it when w < 8
HuffLeafByte(w, sym) == IF w = 8 THEN sym ELSE sym + 240

\* the code of leaf j: 0 | 1 with two leaves, 0 | 10 | 11 with three
HuffCode(n, j) ==
    IF n = 2 THEN <<j - 1>>
    ELSE IF j = 1 THEN <<0>> ELSE <<1, j - 2>>

\* the tree size byte and the tree: the root at header + 5, its children
\* at header + 6 and header + 7, the children of header + 7 at header + 8
HuffTree(w, n) ==
    LET leaf(j) == HuffLeafByte(w, HuffSyms(w, n)[j])
    IN  IF n = 2 THEN <<1, 192, leaf(1), leaf(2)>>
        ELSE <<3, 128, leaf(1), 192, leaf(2), leaf(3), 0, 0>>

\* a byte made of 8 / w symbols, symbol i (from bit 0) being leaf sel[i]
HuffByte(w, n, sel) ==
    SumSeq([i \in 1 .. (8 \div w) |->
              HuffSyms(w, n)[sel[i]] * Pow2(w * (i - 1))])

\* two bytes over the leaves of the tree
HuffBytes(w, n) ==
    {HuffByte(w, n, [i \in 1 .. 8 |-> IF n = 2 THEN ((i - 1) % 2) + 1
                                      ELSE n - ((i - 1) % n)]),
     HuffByte(w, n, [i \in 1 .. 8 |-> IF n = 2 THEN 2 - ((i \div 2) % 2)
                                      ELSE (i % n) + 1])}

\* the leaf whose symbol is sym
HuffLeafOf(w, n, sym) == CHOOSE j \in 1 .. n : HuffSyms(w, n)[j] = sym

\* the code bits of the symbols of one byte, from bit 0 upward
RECURSIVE HuffByteBits(_, _, _, _)
HuffByteBits(w, n, b, k) ==
    IF k = 0 THEN <<>>
    ELSE HuffCode(n, HuffLeafOf(w, n, b % Pow2(w)))
         \o HuffByteBits(w, n, b \div Pow2(w), k - 1)

RECURSIVE HuffBits(_, _, _)
HuffBits(w, n, bytes) ==
    IF bytes = <<>> THEN <<>>
    ELSE HuffByteBits(w, n, Head(bytes), 8 \div w)
         \o HuffBits(w, n, Tail(bytes))

\* eight bits, most significant first, as a byte
BitsByte(bs, from) ==
    SumSeq([i \in 1 .. 8 |->
              IF from + i - 1 <= Len(bs) THEN bs[from + i - 1] * Pow2(8 - i)
              ELSE 0])

\* the bits as 32-bit words, first bit in bit 31, each word little-endian
RECURSIVE HuffWords(_, _)
HuffWords(bs, from) ==
    IF from > Len(bs) THEN <<>>
    ELSE <<BitsByte(bs, from + 24), BitsByte(bs, from + 16),
           BitsByte(bs, from + 8), BitsByte(bs, from)>>
         \o HuffWords(bs, from + 32)

HuffStream(w, n, bytes) ==
    Header(32 + w, Len(bytes)) \o HuffTree(w, n)
    \o HuffWords(HuffBits(w, n, bytes), 1)

\* the symbol widths and tree sizes of the well-formed calls
HuffShapes == {<<1, 2>>, <<2, 2>>, <<4, 2>>, <<8, 2>>, <<2, 3>>, <<8, 3>>}

HuffCalls ==
    UNION {{Call(19, SrcBase, DstBase, Image(HuffStream(t[1], t[2], bytes)),
                 "huff", bytes)
            : bytes \in SeqsOf(HuffBytes(t[1], t[2]), 0, MaxHuffLen)}
           : t \in HuffShapes}

\* calls whose symbol width does not divide 32
HuffBadWidthCalls ==
    {Call(19, SrcBase, DstBase,
          Image(Header(32 + w, 4) \o HuffTree(8, 2) \o <<0, 0, 0, 0>>),
          "huffwidth", <<>>)
     : w \in (0 .. 15) \ {1, 2, 4, 8}}

\* a call whose tree has no terminal flag anywhere: every byte after the
\* header is zero
HuffBadTreeCalls ==
    {Call(19, SrcBase, DstBase, ImageWith(Header(40, 4), 0), "hufftree", <<>>)}

(* RLE streams, built from blocks: a run of n copies of data[1], or the   *)
(* n literal bytes data.                                                  *)
RlBlocks ==
    {[run |-> TRUE, n |-> 3, data |-> <<65>>],
     [run |-> FALSE, n |-> 1, data |-> <<66>>],
     [run |-> FALSE, n |-> 2, data |-> <<67, 68>>]}

\* scenario 4 of the specification: "AAAAABCDEE"
RlExample ==
    <<[run |-> TRUE, n |-> 5, data |-> <<65>>],
      [run |-> FALSE, n |-> 3, data |-> <<66, 67, 68>>],
      [run |-> TRUE, n |-> 4, data |-> <<69>>]>>

RECURSIVE RlExpand(_)
RlExpand(bs) ==
    IF bs = <<>> THEN <<>>
    ELSE LET b == Head(bs)
         IN  (IF b.run THEN [i \in 1 .. b.n |-> b.data[1]] ELSE b.data)
             \o RlExpand(Tail(bs))

RECURSIVE RlEncode(_)
RlEncode(bs) ==
    IF bs = <<>> THEN <<>>
    ELSE LET b == Head(bs)
         IN  (IF b.run THEN <<128 + (b.n - 3), b.data[1]>>
              ELSE <<b.n - 1>> \o b.data)
             \o RlEncode(Tail(bs))

RlCallsOf(bs, lengths) ==
    {Call(IF width = 1 THEN 20 ELSE 21, SrcBase, DstBase + off,
          Image(Header(48, L) \o RlEncode(bs)), "rl", Take(RlExpand(bs), L))
     : L \in lengths, width \in 1 .. 2, off \in 0 .. 1}

RlCalls ==
    UNION {RlCallsOf(bs, 0 .. Len(RlExpand(bs)))
           : bs \in SeqsOf(RlBlocks, 1, MaxBlocks)}
    \cup RlCallsOf(RlExample, {10})

(* UnFilter streams: any bytes after the header *)
UnFilterCalls ==
    {Call(i, SrcBase, DstBase,
          Image(Header(IF i = 24 THEN 130 ELSE 129, L) \o data), "unfilter",
          data)
     : i \in {22, 23, 24}, L \in 0 .. MaxUnits,
       data \in [1 .. MaxUnits -> {1, 255}]}

(* Div: every pair of registers *)
DivCalls ==
    {Call(i, n, d, Image(<<>>), "div", <<>>)
     : i \in {6, 7}, n \in Int32, d \in Int32}

(* Every immediate, by either entry point, with and without the full BIOS *)
SwiCalls ==
    {[Call(IF t THEN i ELSE (i * 65536) + low, SrcBase, DstBase, Image(<<>>),
           "swi", <<>>)
      EXCEPT !.thumb = t, !.fullBios = f]
     : i \in 0 .. 255, t \in BOOLEAN, f \in BOOLEAN, low \in {0, 65535}}

Calls ==
    LzCalls \cup HuffCalls \cup HuffBadWidthCalls \cup HuffBadTreeCalls
    \cup RlCalls \cup UnFilterCalls \cup DivCalls \cup SwiCalls

-----------------------------------------------------------------------------
(* The state machine *)

Init ==
    \E c \in Calls :
        /\ gprs = c.gprs
        /\ mem = c.mem
        /\ fullBios = c.fullBios
        /\ thumb = c.thumb
        /\ imm = c.imm
        /\ pc = "call"
        /\ loc = [fn |-> "none"]
        /\ stores = <<>>
        /\ swiRaised = 0
        /\ handler = "none"
        /\ halted = FALSE
        /\ gprs0 = c.gprs
        /\ mem0 = c.mem
        /\ scen = [kind |-> c.kind, orig |-> c.orig]
        /\ srcTop = 0

Next ==
    \/ SwiThumb
    \/ SwiArm
    \/ Lz77Header
    \/ Lz77Literal
    \/ Lz77Compressed
    \/ Lz77Copy
    \/ Lz77CopyEnd
    \/ Lz77Return
    \/ HuffUnaligned
    \/ HuffDivideTrap
    \/ HuffSetup
    \/ HuffWord
    \/ HuffDescend
    \/ HuffLeaf
    \/ HuffBitsEnd
    \/ HuffReturn
    \/ RlCompressed
    \/ RlUncompressed
    \/ RlRun
    \/ RlLiteral
    \/ RlBlockEnd
    \/ RlLoopEnd
    \/ RlPad
    \/ RlReturn
    \/ UnFilterStep
    \/ UnFilterReturn
    \/ BgAffineStep
    \/ ObjAffineStep
    \/ AffineReturn

Spec == Init /\ [][Next]_vars

\* a handler is a synchronous C call: once entered it keeps running
FairSpec == Spec /\ WF_vars(Next)

-----------------------------------------------------------------------------
(* What the claims speak of *)

\* the SWI number of the call
SwiNumber == IF thumb THEN imm ELSE imm \div 65536

Decoders == {"unLz77", "unHuffman", "unRl", "unFilter"}

\* the handler has returned to the interpreter
Returned == pc = "done"

\* the header word of the call, and its fields
HeaderWord ==
    load32(mem0, IF handler = "unLz77" THEN gprs0[0] ELSE Align4(Wrap(gprs0[0])))
DeclaredLength == HeaderLength(HeaderWord)
HeaderWidth == HeaderWord[1] % 16

\* a decoder ran and returned; for Huffman, with a width that divides 32
Decoded ==
    /\ Returned
    /\ handler \in Decoders
    /\ handler = "unHuffman" => HeaderWidth \in {1, 2, 4, 8}

\* the output width of the call: 2 for the halfword variants
OutWidth == IF SwiNumber \in {18, 21, 23, 24} THEN 2 ELSE 1

\* number of destination bytes stored through the bus
StoredBytes == SumSeq([i \in 1 .. Len(stores) |-> stores[i][2]])

\* the n bytes of m from address d
DestSpan(m, d, n) == [i \in 1 .. n |-> m[Wrap(d + i - 1)]]

\* (4 - L) AND 3
PadTo4(L) == (4 - (L % 4)) % 4

\* the number of odd addresses in [d, d + L)
OddAddresses(d, L) == (L + (d % 2)) \div 2

\* L rounded up to a multiple of k
RoundUp(L, k) == k * ((L + k - 1) \div k)

\* C1, as claimed: a decoder stores exactly the declared length L, RLE
\* in addition (4 - L) AND 3 bytes of padding, whatever the width and the
\* parity of L.
C1_StoredIsDeclared ==
    Decoded =>
        StoredBytes = DeclaredLength
                      + (IF handler = "unRl" THEN PadTo4(DeclaredLength) ELSE 0)

\* the number of bytes each decoder stores for a declared length L and a
\* destination d
ExpectedStored ==
    LET L == DeclaredLength
        d == gprs0[1]
        left == PadTo4(L) - ((d + L) % 2)
    IN  CASE handler = "unLz77" ->
                IF OutWidth = 1 THEN L ELSE 2 * OddAddresses(d, L)
          [] handler = "unHuffman" -> RoundUp(L, 4)
          [] handler = "unRl" ->
                IF OutWidth = 1 THEN L + PadTo4(L)
                ELSE (2 * OddAddresses(d, L)) + (2 * ((left + 1) \div 2))
          [] OTHER -> RoundUp(L, OutWidth)

\* C1, amended: the byte-wide decoders store L bytes (RLE 0x14 plus
\* (4 - L) AND 3 zero bytes); Huffman stores L rounded up to a multiple of
\* 4; UnFilter 0x17 and 0x18 store L rounded up to a multiple of 2; LZ77
\* 0x12 and RLE 0x15 store two bytes for every odd address of
\* [r1, r1 + L), RLE 0x15 then one zero halfword for every two bytes of
\* padding left after stepping to an even address.
C1_StoredIsExpected == Decoded => StoredBytes = ExpectedStored

\* a Huffman call of declared length 5 has returned having stored 8 bytes
C1_Witness ==
    /\ Decoded
    /\ handler = "unHuffman"
    /\ DeclaredLength = 5
    /\ StoredBytes = 8

\* C2: after an LZ77 call on a valid encoding of a byte sequence, with
\* width 1 or 2, the destination span holds that sequence.
C2_Lz77RoundTrip ==
    (Returned /\ scen.kind = "lz77") =>
        DestSpan(mem, gprs0[1], Len(scen.orig)) = scen.orig

\* C3: after a Huffman call on the encoding of L bytes, for every width
\* dividing 32 and every L, the L destination bytes are the original ones.
C3_HuffmanRoundTrip ==
    (Returned /\ scen.kind = "huff") =>
        DestSpan(mem, gprs0[1], Len(scen.orig)) = scen.orig

\* C4: after a decode r0 is one past the last source byte consumed, r1 is
\* the initial r1 plus the number of bytes stored, LZ77 leaves r3 = 0, and
\* no other register has changed.
C4_Registers ==
    Decoded =>
        /\ gprs[0] = srcTop
        /\ gprs[1] = Wrap(gprs0[1] + StoredBytes)
        /\ handler = "unLz77" => gprs[3] = 0
        /\ \A i \in 2 .. 15 :
              (i = 3 /\ handler = "unLz77") \/ gprs[i] = gprs0[i]

\* the numerator and the denominator of a Div call
DivNum == IF SwiNumber = 6 THEN gprs0[0] ELSE gprs0[1]
DivDenom == IF SwiNumber = 6 THEN gprs0[1] ELSE gprs0[0]

\* equal as register contents (modulo 2^DivBits)
SameWord(a, b) == (((a - b) % Pow2(DivBits)) + Pow2(DivBits)) % Pow2(DivBits) = 0

Sign(x) == IF x < 0 THEN -1 ELSE IF x > 0 THEN 1 ELSE 0

\* C5: Div returns, for every n and d, with r0 * d + r1 = n, r1 zero or of
\* the sign of n, r0 the truncated quotient and r3 = |r0| when d # 0, and
\* with r0 = +1 or -1 by the sign of n, r1 = n and r3 = 1 when d = 0.
C5_Div ==
    (scen.kind = "div" /\ pc # "call") =>
        /\ Returned
        /\ IF DivDenom # 0
           THEN /\ SameWord((gprs[0] * DivDenom) + gprs[1], DivNum)
                /\ gprs[1] = 0 \/ Sign(gprs[1]) = Sign(DivNum)
                /\ SameWord(gprs[0], TruncQuot(DivNum, DivDenom))
                /\ SameWord(gprs[3], Abs(gprs[0]))
           ELSE /\ gprs[0] = (IF DivNum >= 0 THEN 1 ELSE -1)
                /\ gprs[1] = DivNum
                /\ gprs[3] = 1

\* C6: a Huffman call whose header width does not divide 32 (0 included)
\* returns at once, having stored nothing and changed no register.
C6_BadWidthReturns ==
    (handler = "unHuffman" /\ HeaderWidth \notin {1, 2, 4, 8}
     /\ pc \notin {"call", "unHuffman"}) =>
        /\ Returned
        /\ stores = <<>>
        /\ mem = mem0
        /\ gprs = gprs0

\* C7: with the full-BIOS flag set, a call by GBASwi16 or GBASwi32 raises
\* the SWI exactly once, runs no HLE handler, stores nothing and leaves
\* the registers unchanged.
C7_FullBios ==
    fullBios =>
        /\ pc \in {"call", "done"}
        /\ swiRaised = (IF pc = "call" THEN 0 ELSE 1)
        /\ handler = "none"
        /\ ~halted
        /\ stores = <<>>
        /\ mem = mem0
        /\ gprs = gprs0

\* the Huffman SWI, entered by GBASwi32 with the full BIOS, has returned
C7_Witness ==
    /\ fullBios
    /\ ~thumb
    /\ SwiNumber = 19
    /\ Returned
    /\ swiRaised = 1

\* C8: after an RLE call of declared length L the destination holds the
\* expanded blocks cut to L bytes, then (4 - L) AND 3 zero bytes; SWI 0x15
\* reaches the same contents with halfword stores only.
C8_Rl ==
    (Returned /\ scen.kind = "rl") =>
        /\ DestSpan(mem, gprs0[1], Len(scen.orig)) = scen.orig
        /\ DestSpan(mem, gprs0[1] + Len(scen.orig), PadTo4(Len(scen.orig)))
             = [i \in 1 .. PadTo4(Len(scen.orig)) |-> 0]
        /\ SwiNumber = 21 => \A i \in 1 .. Len(stores) : stores[i][2] = 2

\* The reference loop of UnFilter: old = 0 at first; each pass reads a unit
\* of inw bytes, adds old modulo 2^16 and emits it; in the 8 -> 16 mode it
\* is merged into the halfword, which is stored at odd source addresses.
\* With `always`, every pass takes outw off `rem` and adds it to the
\* destination; without, only a pass that stores does.
RECURSIVE RefUnFilter(_, _, _, _, _, _, _, _, _)
RefUnFilter(m, src, dst, rem, old, half, inw, outw, always) ==
    IF rem <= 0 THEN [stores |-> <<>>, r0 |-> src, r1 |-> dst]
    ELSE LET unit == IF inw = 1 THEN m[Wrap(src)]
                     ELSE m[Wrap(src)] + (256 * m[Wrap(src + 1)])
             new == (unit + old) % 65536
             merged == (half \div 256) + (256 * (new % 256))
             emits == outw > inw => src % 2 = 1
             value == IF outw > inw THEN merged
                      ELSE IF outw = 1 THEN new % 256 ELSE new
             moves == always \/ emits
             rest == RefUnFilter(m, Wrap(src + inw),
                                 IF moves THEN Wrap(dst + outw) ELSE dst,
                                 IF moves THEN rem - outw ELSE rem,
                                 new,
                                 IF outw > inw THEN merged ELSE half,
                                 inw, outw, always)
         IN  [rest EXCEPT
                !.stores = (IF emits THEN <<<<Wrap(dst), outw, value>>>>
                            ELSE <<>>) \o rest.stores]

RefUnFilterOf(always) ==
    RefUnFilter(mem0, Wrap(Align4(Wrap(gprs0[0])) + 4), Wrap(gprs0[1]),
                DeclaredLength, 0, 0,
                IF SwiNumber = 24 THEN 2 ELSE 1,
                IF SwiNumber = 22 THEN 1 ELSE 2,
                always)

\* the stores and the final r0 and r1 are those of the reference loop
UnFilterAgrees(ref) ==
    (Returned /\ handler = "unFilter") =>
        /\ stores = ref.stores
        /\ gprs[0] = ref.r0
        /\ gprs[1] = ref.r1

\* C9, as claimed: UnFilter is the reference loop in which every pass, in
\* all three modes, decrements remaining and advances the destination.
C9_UnFilterEveryPass == UnFilterAgrees(RefUnFilterOf(TRUE))

\* C9, amended: UnFilter is the reference loop in which remaining is
\* decremented and the destination advanced by outwidth only on a pass
\* that stores: every pass in the 8 -> 8 and 16 -> 16 modes, the passes at
\* odd source addresses in the 8 -> 16 mode; the source advances by
\* inwidth on every pass.
C9_UnFilterStoringPass == UnFilterAgrees(RefUnFilterOf(FALSE))

\* an 8 -> 16 call has returned having stored two halfwords
C9_Witness ==
    /\ Returned
    /\ handler = "unFilter"
    /\ SwiNumber = 23
    /\ Len(stores) = 2

\* C10: every decoder call whose width test passes leaves the handler.
C10_Returns ==
    (scen.kind \in {"lz77", "huff", "hufftree", "rl", "unfilter"})
        ~> (pc \in {"done", "trap"})

====
